---------------------------- MODULE Spec2Model ----------------------------
(***************************************************************************)
(* Model of the deterministic data pipeline of ascendly-mvp:               *)
(*   - _apply_guardrails and forecast_revenue                              *)
(*       (backend/ai_engine/tools/sarimax_tool.py)                         *)
(*   - csv_reader (backend/ai_engine/tools/data_tools.py)                  *)
(*                                                                         *)
(* Money is exact fixed point: one unit is 1/48000 of a currency unit, so  *)
(* that thousandths, four successive multiplications by 1.5 and the       *)
(* interpolated values of the inputs are exact.                            *)
(* Dates are records [y, m, d]; NaT / NaN are the Null value.              *)
(***************************************************************************)
EXTENDS Integers, Sequences, FiniteSets, TLC

VARIABLES
    \* ---- _apply_guardrails, one loop iteration per step
    g_forecast,   \* forecast_values
    g_last,       \* last_actual
    g_i,          \* number of loop iterations done
    g_prev,       \* prev, as it stands after g_i iterations
    g_guarded,    \* guarded, the list built so far
    g_prevs,      \* the prev read by each iteration (history)
    g_vals,       \* val as it stands at line 27 of each iteration (history)
    \* ---- forecast_revenue, one call per step
    f_doc,        \* data, as it stands at line 94: the value parsed from the text
    f_input,      \* data, as it stands at line 111: f_doc unwrapped
    f_pc,         \* "call" before the call, "done" after it
    f_series,     \* series, as it stands at line 158 (<<>> when not reached)
    f_result,     \* the returned JSON object, or the escaped exception
    \* ---- csv_reader, one call per step
    c_input,      \* the table pd.read_csv returned
    c_pc,         \* "call" before the call, "done" after it
    c_date_col,   \* date_col, as it stands at line 45
    c_revenue_col, \* revenue_col, as it stands at line 45
    c_sorted,     \* result, as it stands after line 65
    c_interp,     \* result, as it stands after line 68
    c_clean,      \* result, as it stands after line 71
    c_result,     \* the returned JSON value, or the escaped exception
    \* ---- growth_calculator, one call per step
    m_input,      \* data, the value json.loads returned
    m_pc,         \* "call" before the call, "done" after it
    m_revenues,   \* revenues, as it stands at line 100 (<<>> when not reached)
    m_result,     \* the returned JSON object, or the escaped exception
    \* ---- run_analysis, one step per action
    r_file,            \* the table in the file at file_path
    r_pc,              \* the step run_analysis is at
    r_analyst_agent,   \* what _run_crew_safe returned for the analyst (line 70)
    r_csv_result,      \* csv_result (unbound until line 76 has assigned it)
    r_analyst_output,  \* analyst_output
    r_forecaster_agent, \* what _run_crew_safe returned for the forecaster (line 106)
    r_tool_input,      \* tool_input, once line 122 has been reached
    r_forecast_output, \* forecast_output
    r_response         \* the returned response

gvars == <<g_forecast, g_last, g_i, g_prev, g_guarded, g_prevs, g_vals>>
fvars == <<f_doc, f_input, f_pc, f_series, f_result>>

cvars == <<c_input, c_pc, c_date_col, c_revenue_col, c_sorted, c_interp, c_clean, c_result>>

mvars == <<m_input, m_pc, m_revenues, m_result>>

rvars == <<r_file, r_pc, r_analyst_agent, r_csv_result, r_analyst_output,
           r_forecaster_agent, r_tool_input, r_forecast_output, r_response>>

vars == <<gvars, fvars, cvars, mvars, rvars>>

notGuard == <<fvars, cvars, mvars, rvars>>
notForecast == <<gvars, cvars, mvars, rvars>>
notClean == <<gvars, fvars, mvars, rvars>>
notGrowth == <<gvars, fvars, cvars, rvars>>
notAnalysis == <<gvars, fvars, cvars, mvars>>

-----------------------------------------------------------------------------
(* Fixed-point money *)

\* units in 0.01, the resolution of round(val, 2)
Cent == 480
\* val > prev * 5.0
GrowthLimit == 5
\* val = prev * 1.5, as the fraction CapNum / CapDen
CapNum == 3
CapDen == 2

Mill == Cent \div 10
Money(whole) == whole * 100 * Cent
Mills(n) == n * Mill

\* longest forecast list walked by the guardrail specification
MaxSteps == 3

-----------------------------------------------------------------------------
(* _apply_guardrails *)

\* lines 22-23: if val < 0: val = 0.0
Clamp(val) == IF val < 0 THEN 0 ELSE val

\* lines 24-25: if prev > 0 and val > prev * 5.0: val = prev * 1.5
CapNoPrevCheck(val, prev) ==
    IF val > prev * GrowthLimit THEN (prev * CapNum) \div CapDen ELSE val

Cap(val, prev) ==
    IF prev > 0 /\ val > prev * GrowthLimit
    THEN (prev * CapNum) \div CapDen
    ELSE val

\* lines 22-25: the value of val when line 26 is reached
GuardVal(val, prev) == Cap(Clamp(val), prev)

\* round(val, 2) of a non-negative val.  At an exact decimal tie the result
\* depends on the binary representation of the float, so the direction of a
\* tie is an input (up).
Round2(v, up) ==
    LET q == v \div Cent
        r == v % Cent
    IN  IF 2 * r < Cent THEN q * Cent
        ELSE IF 2 * r > Cent THEN (q + 1) * Cent
        ELSE IF up THEN (q + 1) * Cent ELSE q * Cent

\* line 27: prev = val  (val is the guarded, unrounded value)
NextPrevRounded(raw, val, rounded) == rounded

NextPrevRaw(raw, val, rounded) == raw

NextPrev(raw, val, rounded) == val

\* the whole function, lines 19-28; ups gives the tie direction of each step
RECURSIVE ApplyGuardrails(_, _, _)
ApplyGuardrails(forecast_values, last_actual, ups) ==
    IF forecast_values = <<>> THEN <<>>
    ELSE LET val == GuardVal(Head(forecast_values), last_actual)
             rounded == Round2(val, Head(ups))
         IN  <<rounded>> \o ApplyGuardrails(Tail(forecast_values),
                                NextPrev(Head(forecast_values), val, rounded),
                                Tail(ups))

\* inputs of the guardrail walk
GuardValues ==
    {Money(-5), Mills(4), Mills(5), Mills(21), Money(50), Money(400), Money(600), Money(700)}

GuardLasts == {0, Mills(3), Money(100)}

SeqsUpTo(S, n) == UNION {[1..k -> S] : k \in 0..n}

\* the walk before any call
IdleGuard ==
    /\ g_forecast = <<>>
    /\ g_last = 0
    /\ g_i = 0
    /\ g_prev = 0
    /\ g_guarded = <<>>
    /\ g_prevs = <<>>
    /\ g_vals = <<>>

InitGuardWalk ==
    /\ g_forecast \in SeqsUpTo(GuardValues, MaxSteps)
    /\ g_last \in GuardLasts
    /\ g_i = 0
    /\ g_prev = g_last
    /\ g_guarded = <<>>
    /\ g_prevs = <<>>
    /\ g_vals = <<>>

\* one iteration of the loop, lines 21-27
GuardStep ==
    /\ g_i < Len(g_forecast)
    /\ \E up \in BOOLEAN :
         LET raw == g_forecast[g_i + 1]
             val == GuardVal(raw, g_prev)
             rounded == Round2(val, up)
         IN  /\ g_guarded' = Append(g_guarded, rounded)
             /\ g_prev' = NextPrev(raw, val, rounded)
             /\ g_prevs' = Append(g_prevs, g_prev)
             /\ g_vals' = Append(g_vals, val)
    /\ g_i' = g_i + 1
    /\ UNCHANGED <<g_forecast, g_last>>
    /\ UNCHANGED notGuard

GuardDone == g_i = Len(g_forecast)

-----------------------------------------------------------------------------
(* Values: dates, numbers, records *)

\* a parsed or parseable calendar date
Date(y, m, d) == [kind |-> "date", y |-> y, m |-> m, d |-> d]
\* a missing date (null / NaN in the input, NaT once parsed)
NaT == [kind |-> "nat", y |-> 0, m |-> 0, d |-> 0]
\* a string pd.to_datetime cannot parse
BadDate == [kind |-> "bad", y |-> 0, m |-> 0, d |-> 0]

\* a number, and the NaN that pd.to_numeric(errors="coerce") yields
Num(v) == [ok |-> TRUE, v |-> v]
NaN == [ok |-> FALSE, v |-> 0]

\* months since year 0 of a date, and the month-start date of such an index
MonthIndex(dt) == dt.y * 12 + (dt.m - 1)
MonthStart(idx) == Date(idx \div 12, (idx % 12) + 1, 1)

\* chronological order of two dates
DateLess(a, b) ==
    \/ MonthIndex(a) < MonthIndex(b)
    \/ MonthIndex(a) = MonthIndex(b) /\ a.d < b.d

\* relativedelta(months=k) added to a month-start date (day 1 needs no clipping)
AddMonthsNoCarry(dt, k) == Date(dt.y, ((dt.m - 1 + k) % 12) + 1, dt.d)

AddMonths(dt, k) ==
    Date(dt.y + ((dt.m - 1 + k) \div 12), ((dt.m - 1 + k) % 12) + 1, dt.d)

-----------------------------------------------------------------------------
(* forecast_revenue *)

\* len(data) < 3, len(df) < 3, len(series) < 3
MinForecastRows == 3
\* if n_points < 12
SarimaxMinPoints == 12
\* steps=3, range(3)
Horizon == 3

\* longest list of freely chosen records handed to forecast_revenue
MaxRecs == 3
\* longest gap-free monthly list handed to forecast_revenue
MaxSeries == 13
\* year of the first date of the inputs
BaseYear == 2023

\* col.lower().strip() on the headers the inputs use
Normalize(col) ==
    CASE col = "Date" -> "date"
      [] col = " Month " -> "month"
      [] col = "SALES" -> "sales"
      [] col = "Revenue " -> "revenue"
      [] OTHER -> col

DateAliases == {"date", "month", "period", "time"}
RevenueAliases == {"revenue", "amount", "sales", "income"}

\* lines 123-129: the last column matching each alias set ("" when none)
RECURSIVE ColMapFrom(_, _)
ColMapFrom(cols, acc) ==
    IF cols = <<>> THEN acc
    ELSE LET col == Head(cols)
             cl == Normalize(col)
             nxt == IF cl \in DateAliases THEN [acc EXCEPT !.date = col]
                    ELSE IF cl \in RevenueAliases THEN [acc EXCEPT !.revenue = col]
                    ELSE acc
         IN  ColMapFrom(Tail(cols), nxt)

ColMap(cols) == ColMapFrom(cols, [date |-> "", revenue |-> ""])

\* df.columns of a list of records keyed hdr.dcol / hdr.rcol ("" = key absent)
Columns(hdr) ==
    (IF hdr.dcol = "" THEN <<>> ELSE <<hdr.dcol>>)
    \o (IF hdr.rcol = "" THEN <<>> ELSE <<hdr.rcol>>)

\* line 142: df.dropna(subset=["date", "revenue"])
IsValidRow(r) == r.date.kind = "date" /\ r.revenue.ok
DropNa(rows) == SelectSeq(rows, IsValidRow)

RowSet(rows) == {rows[i] : i \in 1..Len(rows)}

MinDate(rows) ==
    CHOOSE a \in {r.date : r \in RowSet(rows)} :
        \A b \in {r.date : r \in RowSet(rows)} : ~DateLess(b, a)
MaxDate(rows) ==
    CHOOSE a \in {r.date : r \in RowSet(rows)} :
        \A b \in {r.date : r \in RowSet(rows)} : ~DateLess(a, b)

\* the index has duplicate labels: df.asfreq raises ValueError
HasDuplicateDates(rows) ==
    \E i, j \in 1..Len(rows) : i # j /\ rows[i].date = rows[j].date

\* line 152: df.asfreq("MS") reindexes onto date_range(min, max, freq="MS");
\* a month start without a row of exactly that date holds NaN
AsfreqValue(rows, idx) ==
    IF \E r \in RowSet(rows) : r.date = MonthStart(idx)
    THEN (CHOOSE r \in RowSet(rows) : r.date = MonthStart(idx)).revenue
    ELSE NaN

Asfreq(rows) ==
    LET lo == IF MinDate(rows).d = 1 THEN MonthIndex(MinDate(rows))
              ELSE MonthIndex(MinDate(rows)) + 1
        hi == MonthIndex(MaxDate(rows))
    IN  [k \in 1..(IF hi >= lo THEN hi - lo + 1 ELSE 0) |->
            [date |-> MonthStart(lo + k - 1),
             revenue |-> AsfreqValue(rows, lo + k - 1)]]

\* lines 155-156: df.resample("MS").last() then dropna.  The last row of a
\* month is a row with the latest date of that month; sort_values leaves the
\* order of rows with equal dates open, so any of them may be the last.
LastOfMonth(rows, idx) ==
    LET inMonth == {r \in RowSet(rows) : MonthIndex(r.date) = idx}
    IN  {r.revenue : r \in {a \in inMonth : \A b \in inMonth : ~DateLess(a.date, b.date)}}

RECURSIVE ResampleFrom(_, _, _)
ResampleFrom(rows, idx, hi) ==
    IF idx > hi THEN {<<>>}
    ELSE LET rest == ResampleFrom(rows, idx + 1, hi)
         IN  IF LastOfMonth(rows, idx) = {} THEN rest
             ELSE {<<[date |-> MonthStart(idx), revenue |-> v]>> \o s :
                       v \in LastOfMonth(rows, idx), s \in rest}

ResampleLast(rows) ==
    ResampleFrom(rows, MonthIndex(MinDate(rows)), MonthIndex(MaxDate(rows)))

\* lines 147-158: the possible values of series
MonthlyGrid(rows) ==
    IF HasDuplicateDates(rows) THEN ResampleLast(rows) ELSE {Asfreq(rows)}

\* lines 165-170
SelectModelInclusive(n_points) ==
    IF n_points <= SarimaxMinPoints THEN "SES" ELSE "SARIMAX"

SelectModel(n_points) ==
    IF n_points < SarimaxMinPoints THEN "SES" ELSE "SARIMAX"

\* _forecast_ses / _forecast_sarimax: the fitted model is a library; its
\* forecasts are one of these (no value is a rounding tie), or it raises
RawOutputs ==
    { [mean  |-> <<Money(120), Money(120), Money(120)>>,
       lower |-> <<Money(90), Money(90), Money(90)>>,
       upper |-> <<Money(150), Money(150), Money(150)>>],
      [mean  |-> <<Money(700), Money(50), Money(-5)>>,
       lower |-> <<Money(600), Money(40), Money(-20)>>,
       upper |-> <<Money(800), Money(60), Money(10)>>] }

\* line 172: float(series.iloc[-1]); a NaN prev fails prev > 0 as 0 does
LastActual(series) ==
    IF series[Len(series)].revenue.ok THEN series[Len(series)].revenue.v ELSE 0

\* line 183: last_date + relativedelta(months=i + 1), i counted from 1 here
ForecastDate(last_date, i) == AddMonths(last_date, i)

NoForecast == <<>>

Error(kind, stage, got) ==
    [kind |-> "error", error |-> kind, stage |-> stage, got |-> got,
     model_used |-> "", data_points |-> 0, forecast |-> NoForecast]

\* an exception of the model fit leaves forecast_revenue uncaught
Raised(model, n) ==
    [kind |-> "raised", error |-> "", stage |-> "fit", got |-> 0,
     model_used |-> model, data_points |-> n, forecast |-> NoForecast]

\* lines 172-196
Forecast(series, raw, ups) ==
    LET last_actual == LastActual(series)
        last_date == series[Len(series)].date
        guarded_mean == ApplyGuardrails(raw.mean, last_actual, ups)
        guarded_lower == ApplyGuardrails(raw.lower, last_actual, ups)
        guarded_upper == ApplyGuardrails(raw.upper, last_actual, ups)
    IN  [kind |-> "ok", error |-> "", stage |-> "", got |-> 0,
         model_used |-> SelectModel(Len(series)),
         data_points |-> Len(series),
         forecast |-> [i \in 1..Horizon |->
                          [date |-> ForecastDate(last_date, i),
                           revenue |-> guarded_mean[i],
                           conf_lower |-> guarded_lower[i],
                           conf_upper |-> guarded_upper[i]]]]

IsNonEmptyList(data) == data.tag = "list" /\ Len(data.rows) > 0

\* lines 111-145 with the column check moved before the length check
InputErrorColumnsFirst(data) ==
    IF ~IsNonEmptyList(data) THEN Error("malformed", "input", 0)
    ELSE IF ColMap(Columns(data.hdr)).date = "" \/ ColMap(Columns(data.hdr)).revenue = ""
    THEN Error("columns", "input", 0)
    ELSE IF Len(data.rows) < MinForecastRows
    THEN Error("insufficient", "input", Len(data.rows))
    ELSE IF \E i \in 1..Len(data.rows) : data.rows[i].date.kind = "bad"
    THEN Error("dates", "input", 0)
    ELSE IF Len(DropNa(data.rows)) < MinForecastRows
    THEN Error("insufficient", "cleaned", Len(DropNa(data.rows)))
    ELSE Error("", "", 0)

\* lines 111-145: the error returned before resampling (error "" when none)
InputError(data) ==
    IF ~IsNonEmptyList(data) THEN Error("malformed", "input", 0)
    ELSE IF Len(data.rows) < MinForecastRows
    THEN Error("insufficient", "input", Len(data.rows))
    ELSE IF ColMap(Columns(data.hdr)).date = "" \/ ColMap(Columns(data.hdr)).revenue = ""
    THEN Error("columns", "input", 0)
    ELSE IF \E i \in 1..Len(data.rows) : data.rows[i].date.kind = "bad"
    THEN Error("dates", "input", 0)
    ELSE IF Len(DropNa(data.rows)) < MinForecastRows
    THEN Error("insufficient", "cleaned", Len(DropNa(data.rows)))
    ELSE Error("", "", 0)

\* lines 111-196: every (series, result) the call can end with, for data that
\* is a list of records or no list at all (pd.DataFrame of a list of dicts
\* does not raise, so lines 119-120 are not taken).  The fit may raise or
\* return any of RawOutputs, also on a series that holds NaN.
ForecastOutcomes(data) ==
    IF InputError(data).error # ""
    THEN {[series |-> <<>>, result |-> InputError(data)]}
    ELSE UNION {
           IF Len(series) < MinForecastRows
           THEN {[series |-> series,
                  result |-> Error("insufficient", "resampled", Len(series))]}
           ELSE {[series |-> series,
                  result |-> Raised(SelectModel(Len(series)), Len(series))]}
                \cup {[series |-> series, result |-> Forecast(series, raw, ups)] :
                         raw \in RawOutputs, ups \in {[i \in 1..Horizon |-> FALSE]}}
           : series \in MonthlyGrid(DropNa(data.rows)) }

\* ---- inputs

\* revenue of the i-th record of an input
Rev(i) == Num(Money(100 + 10 * i))

\* the records a freely chosen list draws its i-th element from
RecChoices(i) ==
    { [date |-> Date(BaseYear, 1, 1), revenue |-> Rev(i)],
      [date |-> Date(BaseYear, 1, 15), revenue |-> Rev(i)],
      [date |-> Date(BaseYear, 2, 1), revenue |-> Rev(i)],
      [date |-> Date(BaseYear, 3, 15), revenue |-> Rev(i)],
      [date |-> Date(BaseYear, 4, 1), revenue |-> Rev(i)],
      [date |-> Date(BaseYear, 2, 1), revenue |-> NaN],
      [date |-> NaT, revenue |-> Rev(i)],
      [date |-> BadDate, revenue |-> Rev(i)] }

RECURSIVE ListsOfLen(_)
ListsOfLen(k) ==
    IF k = 0 THEN {<<>>}
    ELSE {Append(s, r) : s \in ListsOfLen(k - 1), r \in RecChoices(k)}

FreeLists(n) == UNION {ListsOfLen(k) : k \in 0..n}

\* n consecutive month starts from January of BaseYear
RegularList(n) ==
    [i \in 1..n |-> [date |-> MonthStart(BaseYear * 12 + i - 1), revenue |-> Rev(i)]]

\* n consecutive months, every date on the 15th
MidMonthList(n) ==
    [i \in 1..n |->
        [date |-> [MonthStart(BaseYear * 12 + i - 1) EXCEPT !.d = 15],
         revenue |-> Rev(i)]]

\* rows followed by a second record for the date of its last record
WithDuplicate(rows) ==
    IF rows = <<>> THEN rows
    ELSE Append(rows, [date |-> rows[Len(rows)].date, revenue |-> Rev(Len(rows) + 1)])

\* rows without its second record: a month without observation
WithGap(rows) ==
    IF Len(rows) < 2 THEN rows
    ELSE [i \in 1..(Len(rows) - 1) |-> IF i = 1 THEN rows[1] ELSE rows[i + 1]]

SeriesLists ==
    UNION {{RegularList(n), MidMonthList(n),
            WithDuplicate(RegularList(n)), WithDuplicate(MidMonthList(n)),
            WithGap(RegularList(n)), WithDuplicate(WithGap(MidMonthList(n)))}
           : n \in 0..MaxSeries}

PlainHeader == [dcol |-> "date", rcol |-> "revenue"]

OtherHeaders ==
    { [dcol |-> " Month ", rcol |-> "SALES"],
      [dcol |-> "when", rcol |-> "Revenue "],
      [dcol |-> "Date", rcol |-> "rev"],
      [dcol |-> "", rcol |-> "revenue"] }

List(hdr, rows) == [tag |-> "list", hdr |-> hdr, rows |-> rows]
\* a parsed JSON value that is no list
Scalar == [tag |-> "scalar", hdr |-> [dcol |-> "", rcol |-> ""], rows |-> <<>>]

\* ---- JSON objects (lines 95-109).  A parsed object is its items in key
\* order; a string or a number carries the cell it makes in a data frame.

Dict(items) ==
    [tag |-> "dict", hdr |-> [dcol |-> "", rcol |-> ""], rows |-> <<>>, items |-> items]
Item(key, val) == [key |-> key, val |-> val]
Text(cell) ==
    [tag |-> "scalar", hdr |-> [dcol |-> "", rcol |-> ""], rows |-> <<>>, cell |-> cell]

\* key in data
HasKey(doc, key) == \E i \in 1..Len(doc.items) : doc.items[i].key = key
\* data[key]
ValueOf(doc, key) ==
    doc.items[CHOOSE i \in 1..Len(doc.items) : doc.items[i].key = key].val

\* the cell a value makes in a data frame column
DateCellOf(val) == IF "cell" \in DOMAIN val THEN val.cell ELSE NaT
RevenueCellOf(val) ==
    IF "cell" \in DOMAIN val /\ "ok" \in DOMAIN val.cell THEN val.cell ELSE NaN

\* line 104: data = [data]
OneRecordList(doc) ==
    List(PlainHeader, <<[date |-> DateCellOf(ValueOf(doc, "date")),
                         revenue |-> RevenueCellOf(ValueOf(doc, "revenue"))]>>)

\* lines 107-109: the first value that is a list with len(v) > 0; data stays
\* the object when there is none
RECURSIVE FirstListFrom(_, _)
FirstListFrom(doc, i) ==
    IF i > Len(doc.items) THEN doc
    ELSE IF IsNonEmptyList(doc.items[i].val) THEN doc.items[i].val
    ELSE FirstListFrom(doc, i + 1)

\* lines 95-109 with "data" looked up before "cleaned_data"
UnwrapDataFirst(doc) ==
    IF doc.tag # "dict" THEN doc
    ELSE IF HasKey(doc, "data") THEN ValueOf(doc, "data")
    ELSE IF HasKey(doc, "cleaned_data") THEN ValueOf(doc, "cleaned_data")
    ELSE IF HasKey(doc, "date") /\ HasKey(doc, "revenue") THEN OneRecordList(doc)
    ELSE FirstListFrom(doc, 1)

\* lines 95-109
Unwrap(doc) ==
    IF doc.tag # "dict" THEN doc
    ELSE IF HasKey(doc, "cleaned_data") THEN ValueOf(doc, "cleaned_data")
    ELSE IF HasKey(doc, "data") THEN ValueOf(doc, "data")
    ELSE IF HasKey(doc, "date") /\ HasKey(doc, "revenue") THEN OneRecordList(doc)
    ELSE FirstListFrom(doc, 1)

\* the keys and the values of the objects handed in
DictKeys == {"cleaned_data", "data", "date", "revenue", "records", "metrics"}
DictValues ==
    { List(PlainHeader, <<>>), List(PlainHeader, RegularList(MinForecastRows)),
      List(PlainHeader, RegularList(MinForecastRows + 1)),
      Scalar, Dict(<<>>), Text(Date(BaseYear, 1, 1)), Text(Rev(1)) }
DictItems == {Item(k, v) : k \in DictKeys, v \in DictValues}

\* the objects of at most two items
Dicts ==
    {Dict(<<>>)}
    \cup {Dict(<<a>>) : a \in DictItems}
    \cup {Dict(<<p[1], p[2]>>) : p \in {q \in DictItems \X DictItems : q[1].key # q[2].key}}

ForecastInputs ==
    {Scalar}
    \cup {List(PlainHeader, rows) : rows \in FreeLists(MaxRecs)}
    \cup {List(hdr, rows) : hdr \in OtherHeaders, rows \in FreeLists(MaxRecs - 1)}
    \cup {List(hdr, rows) :
             hdr \in {PlainHeader} \cup OtherHeaders, rows \in SeriesLists}

\* the values lines 74-92 hand to line 94
ForecastDocs == ForecastInputs \cup Dicts

IdleForecast ==
    /\ f_doc = Scalar
    /\ f_input = Scalar
    /\ f_pc = "idle"
    /\ f_series = <<>>
    /\ f_result = Error("", "", 0)

InitForecastCall ==
    /\ f_doc \in ForecastDocs
    /\ f_input = Scalar
    /\ f_pc = "call"
    /\ f_series = <<>>
    /\ f_result = Error("", "", 0)

\* forecast_revenue, from line 94 to its return
ForecastRevenue ==
    /\ f_pc = "call"
    /\ f_input' = Unwrap(f_doc)
    /\ \E out \in ForecastOutcomes(Unwrap(f_doc)) :
          /\ f_series' = out.series
          /\ f_result' = out.result
    /\ f_pc' = "done"
    /\ UNCHANGED f_doc
    /\ UNCHANGED notForecast

-----------------------------------------------------------------------------
(* _fuzzy_match_column: headers are sequences of characters *)

UpperChars == <<"A", "B", "C", "D", "E", "F", "G", "H", "I", "J", "K", "L", "M",
                "N", "O", "P", "Q", "R", "S", "T", "U", "V", "W", "X", "Y", "Z">>
LowerChars == <<"a", "b", "c", "d", "e", "f", "g", "h", "i", "j", "k", "l", "m",
                "n", "o", "p", "q", "r", "s", "t", "u", "v", "w", "x", "y", "z">>

\* str.lower()
LowerChar(c) ==
    IF \E i \in 1..Len(UpperChars) : UpperChars[i] = c
    THEN LowerChars[CHOOSE i \in 1..Len(UpperChars) : UpperChars[i] = c]
    ELSE c
Lower(s) == [i \in 1..Len(s) |-> LowerChar(s[i])]

\* str.strip()
RECURSIVE StripLeft(_)
StripLeft(s) == IF s # <<>> /\ Head(s) = " " THEN StripLeft(Tail(s)) ELSE s
RECURSIVE StripRight(_)
StripRight(s) ==
    IF s # <<>> /\ s[Len(s)] = " " THEN StripRight(SubSeq(s, 1, Len(s) - 1)) ELSE s
Strip(s) == StripRight(StripLeft(s))

\* difflib SequenceMatcher.find_longest_match on a[alo..ahi] and b[blo..bhi]
\* (1-based, inclusive): the longest common block, the earliest in a and
\* then the earliest in b among the longest
BlockAt(a, b, i, j, k) == \A d \in 0..(k - 1) : a[i + d] = b[j + d]

LongestMatch(a, b, alo, ahi, blo, bhi) ==
    LET fits(i, j, k) == i + k - 1 <= ahi /\ j + k - 1 <= bhi /\ BlockAt(a, b, i, j, k)
        sizes == {k \in 0..(ahi - alo + 1) :
                     k = 0 \/ \E i \in alo..ahi, j \in blo..bhi : fits(i, j, k)}
        best == CHOOSE k \in sizes : \A x \in sizes : x <= k
        bi == CHOOSE i \in alo..ahi :
                  /\ \E j \in blo..bhi : fits(i, j, best)
                  /\ \A x \in alo..(i - 1) : ~\E j \in blo..bhi : fits(x, j, best)
        bj == CHOOSE j \in blo..bhi :
                  /\ fits(bi, j, best)
                  /\ \A y \in blo..(j - 1) : ~fits(bi, y, best)
    IN  IF best = 0 THEN [i |-> alo, j |-> blo, size |-> 0]
        ELSE [i |-> bi, j |-> bj, size |-> best]

\* the total size of get_matching_blocks()
RECURSIVE Matches(_, _, _, _, _, _)
\* the block m and the blocks to its left and to its right
MatchesAround(a, b, alo, ahi, blo, bhi, m) ==
    IF m.size = 0 THEN 0
    ELSE m.size
         + Matches(a, b, alo, m.i - 1, blo, m.j - 1)
         + Matches(a, b, m.i + m.size, ahi, m.j + m.size, bhi)

Matches(a, b, alo, ahi, blo, bhi) ==
    IF alo > ahi \/ blo > bhi THEN 0
    ELSE MatchesAround(a, b, alo, ahi, blo, bhi,
                       LongestMatch(a, b, alo, ahi, blo, bhi))

\* ratio() = 2.0 * matches / (len(a) + len(b)), kept as the fraction num / den
\* (1.0 for two empty strings)
Ratio(a, b) ==
    IF Len(a) + Len(b) = 0 THEN [num |-> 1, den |-> 1]
    ELSE [num |-> 2 * Matches(a, b, 1, Len(a), 1, Len(b)), den |-> Len(a) + Len(b)]

\* threshold: float = 0.6, as the fraction ThresholdNum / ThresholdDen
ThresholdNum == 3
ThresholdDen == 5

FracLess(x, y) == x.num * y.den < y.num * x.den
\* line 18 with a threshold of one half
MeetsLowerThreshold(x) == x.num * 2 >= x.den
\* line 18: score >= threshold
MeetsThreshold(x) == x.num * ThresholdDen >= ThresholdNum * x.den

\* lines 14-21; NoColumn is Python's None
NoColumn == <<>>

RECURSIVE FuzzyFrom(_, _, _, _)
FuzzyFrom(columns, target, best_match, best_score) ==
    IF columns = <<>> THEN best_match
    ELSE LET col == Head(columns)
             score == Ratio(Strip(Lower(col)), Lower(target))
         IN  IF FracLess(best_score, score) /\ MeetsThreshold(score)
             THEN FuzzyFrom(Tail(columns), target, col, score)
             ELSE FuzzyFrom(Tail(columns), target, best_match, best_score)

FuzzyMatchColumn(columns, target) ==
    FuzzyFrom(columns, target, NoColumn, [num |-> 0, den |-> 1])

T_date == <<"d", "a", "t", "e">>
T_revenue == <<"r", "e", "v", "e", "n", "u", "e">>
T_expenses == <<"e", "x", "p", "e", "n", "s", "e", "s">>
T_expense == <<"e", "x", "p", "e", "n", "s", "e">>
T_month == <<"m", "o", "n", "t", "h">>
T_period == <<"p", "e", "r", "i", "o", "d">>
T_time == <<"t", "i", "m", "e">>
T_year == <<"y", "e", "a", "r">>

\* line 41: for alt in ["month", "period", "time", "year"]
DateAlternates == <<T_month, T_period, T_time, T_year>>

RECURSIVE FirstAlternate(_, _)
FirstAlternate(columns, alts) ==
    IF alts = <<>> THEN NoColumn
    ELSE IF FuzzyMatchColumn(columns, Head(alts)) # NoColumn
    THEN FuzzyMatchColumn(columns, Head(alts))
    ELSE FirstAlternate(columns, Tail(alts))

\* lines 36-44
ResolveDate(columns) ==
    IF FuzzyMatchColumn(columns, T_date) # NoColumn
    THEN FuzzyMatchColumn(columns, T_date)
    ELSE FirstAlternate(columns, DateAlternates)

\* line 37
ResolveRevenue(columns) == FuzzyMatchColumn(columns, T_revenue)

\* lines 58-60
ResolveExpenses(columns) ==
    IF FuzzyMatchColumn(columns, T_expenses) # NoColumn
    THEN FuzzyMatchColumn(columns, T_expenses)
    ELSE FuzzyMatchColumn(columns, T_expense)

-----------------------------------------------------------------------------
(* csv_reader *)

\* if len(result) < 6
MinCleanRows == 6

\* most rows of a raw table
MaxRows == 7
\* most rows of a raw table that differ from a gap-free monthly table
MaxDefects == 2

\* a raw table: columns[1] holds the date cells, columns[2] the revenue cells,
\* any further column holds empty cells
Cell(table, k, col) ==
    LET i == CHOOSE x \in 1..Len(table.columns) : table.columns[x] = col
    IN  IF i = 1 THEN table.rows[k].date
        ELSE IF i = 2 THEN table.rows[k].revenue
        ELSE NaN

\* line 54: pd.to_datetime(..., format="mixed") of one cell; an empty cell is
\* NaT, a number is nanoseconds since 1970, an unparseable string (BadDate)
\* makes the call raise
ToDatetime(cell) ==
    IF "kind" \in DOMAIN cell THEN cell
    ELSE IF cell.ok THEN Date(1970, 1, 1) ELSE NaT

\* line 55: pd.to_numeric(..., errors="coerce") of one cell
ToNumeric(cell) == IF "ok" \in DOMAIN cell THEN cell ELSE NaN

\* lines 53-55
Extract(table, date_col, revenue_col) ==
    [k \in 1..Len(table.rows) |->
        [date |-> ToDatetime(Cell(table, k, date_col)),
         revenue |-> ToNumeric(Cell(table, k, revenue_col))]]

DateRaises(table, date_col) ==
    \E k \in 1..Len(table.rows) : ToDatetime(Cell(table, k, date_col)).kind = "bad"

\* line 65: sort_values("date").reset_index(drop=True).  Rows with a date come
\* first in date order, rows of equal date in any order (the sort is not
\* stable); the NaT rows follow in their input order.
RECURSIVE SortedFrom(_, _)
SortedFrom(rows, S) ==
    IF S = {} THEN {<<>>}
    ELSE UNION {{<<rows[m]>> \o t : t \in SortedFrom(rows, S \ {m})} :
                   m \in {i \in S : \A j \in S : ~DateLess(rows[j].date, rows[i].date)}}

InputOrder(rows) == {rows}

SortValues(rows) ==
    LET dated == {i \in 1..Len(rows) : rows[i].date.kind = "date"}
        IsNaT(r) == r.date.kind # "date"
    IN  {s \o SelectSeq(rows, IsNaT) : s \in SortedFrom(rows, dated)}

\* line 68 with the previous number carried into every NaN
ForwardFillValue(vals, k) ==
    LET before == {i \in 1..(k - 1) : vals[i].ok}
        i == CHOOSE x \in before : \A y \in before : y <= x
    IN  IF vals[k].ok THEN vals[k]
        ELSE IF before = {} THEN NaN
        ELSE vals[i]

\* line 68: Series.interpolate(method="linear") with pandas' defaults
\* (limit_direction="forward"): positions are equally spaced; a NaN between
\* two numbers lies on the line through them, a NaN after the last number
\* takes that number, a NaN before the first number stays NaN
InterpolateValue(vals, k) ==
    LET before == {i \in 1..(k - 1) : vals[i].ok}
        after == {j \in (k + 1)..Len(vals) : vals[j].ok}
        i == CHOOSE x \in before : \A y \in before : y <= x
        j == CHOOSE x \in after : \A y \in after : x <= y
    IN  IF vals[k].ok THEN vals[k]
        ELSE IF before = {} THEN NaN
        ELSE IF after = {} THEN vals[i]
        ELSE Num(vals[i].v + ((vals[j].v - vals[i].v) * (k - i)) \div (j - i))

Interpolate(rows) ==
    LET vals == [k \in 1..Len(rows) |-> rows[k].revenue]
    IN  [k \in 1..Len(rows) |-> [rows[k] EXCEPT !.revenue = InterpolateValue(vals, k)]]

\* line 71: dropna(subset=["date", "revenue"]) is DropNa

\* lines 48-49: the targets the column message names,
\* "Need columns matching 'Date' and 'Revenue'"
RequiredTargets == {"date", "revenue"}
NoTargets == {}

\* lines 46-50 with the message leaving the headers out
CsvErrorNoHeaders(kind, got, required, found) ==
    [kind |-> "error", error |-> kind, got |-> got, required |-> required,
     found |-> <<>>, need |-> IF kind = "columns" THEN RequiredTargets ELSE NoTargets,
     records |-> <<>>, expenses |-> FALSE]

\* lines 46-50 and 74-76: the error object; found and need are what the
\* column message carries
CsvError(kind, got, required, found) ==
    [kind |-> "error", error |-> kind, got |-> got, required |-> required,
     found |-> found, need |-> IF kind = "columns" THEN RequiredTargets ELSE NoTargets,
     records |-> <<>>, expenses |-> FALSE]

CsvRaised ==
    [kind |-> "raised", error |-> "", got |-> 0, required |-> 0,
     found |-> <<>>, need |-> NoTargets, records |-> <<>>, expenses |-> FALSE]

\* lines 73-81 with the floor compared by <=
CsvReturnInclusive(clean, expense_col) ==
    IF Len(clean) <= MinCleanRows
    THEN CsvError("insufficient", Len(clean), MinCleanRows, <<>>)
    ELSE [kind |-> "ok", error |-> "", got |-> 0, required |-> 0, found |-> <<>>,
          need |-> NoTargets, records |-> clean, expenses |-> expense_col # NoColumn]

\* lines 73-81
CsvReturn(clean, expense_col) ==
    IF Len(clean) < MinCleanRows
    THEN CsvError("insufficient", Len(clean), MinCleanRows, <<>>)
    ELSE [kind |-> "ok", error |-> "", got |-> 0, required |-> 0, found |-> <<>>,
          need |-> NoTargets, records |-> clean, expenses |-> expense_col # NoColumn]

NoRows == <<>>

\* lines 35-81: every way the call can end, with the frames it went through
CsvOutcomes(table) ==
    LET columns == table.columns
        date_col == ResolveDate(columns)
        revenue_col == ResolveRevenue(columns)
    IN  IF date_col = NoColumn \/ revenue_col = NoColumn
        THEN {[date_col |-> date_col, revenue_col |-> revenue_col,
               sorted |-> NoRows, interp |-> NoRows, clean |-> NoRows,
               result |-> CsvError("columns", 0, 0, columns)]}
        ELSE IF DateRaises(table, date_col)
        THEN {[date_col |-> date_col, revenue_col |-> revenue_col,
               sorted |-> NoRows, interp |-> NoRows, clean |-> NoRows,
               result |-> CsvRaised]}
        ELSE {[date_col |-> date_col, revenue_col |-> revenue_col,
               sorted |-> s, interp |-> Interpolate(s), clean |-> DropNa(Interpolate(s)),
               result |-> CsvReturn(DropNa(Interpolate(s)), ResolveExpenses(columns))] :
                 s \in SortValues(Extract(table, date_col, revenue_col))}

\* ---- inputs

\* revenue of the k-th row of a raw table
RevC(k) == Num(Money(10 * k))

RegularRow(k) == [date |-> MonthStart(BaseYear * 12 + k - 1), revenue |-> RevC(k)]

\* the ways the k-th row of a raw table departs from a gap-free monthly table
DefectRows(k) ==
    { [date |-> MonthStart(BaseYear * 12 + k - 1), revenue |-> NaN],
      [date |-> NaT, revenue |-> RevC(k)],
      [date |-> BadDate, revenue |-> RevC(k)],
      [date |-> MonthStart(BaseYear * 12 + (IF k = 1 THEN 1 ELSE k - 2)),
       revenue |-> RevC(k)] }

\* the tables of k rows with at most b such rows
RECURSIVE RowsUpTo(_, _)
RowsUpTo(k, b) ==
    IF k = 0 THEN {<<>>}
    ELSE {Append(s, RegularRow(k)) : s \in RowsUpTo(k - 1, b)}
         \cup (IF b = 0 THEN {}
               ELSE {Append(s, r) : s \in RowsUpTo(k - 1, b - 1), r \in DefectRows(k)})

Reverse(s) == [i \in 1..Len(s) |-> s[Len(s) + 1 - i]]

H_Date == <<"D", "a", "t", "e">>
H_Revenue == <<"R", "e", "v", "e", "n", "u", "e">>
H_TxnDate == <<"T", "x", "n", " ", "D", "a", "t", "e">>
H_RevUSD == <<"R", "e", "v", " ", "(", "U", "S", "D", ")">>
H_A == <<"A">>
H_B == <<"B">>
H_Month == <<" ", "M", "o", "n", "t", "h">>
H_Revenues == <<"r", "e", "v", "e", "n", "u", "e", "s">>
H_Expense == <<"E", "x", "p", "e", "n", "s", "e">>

PlainColumns == <<H_Date, H_Revenue>>

OtherColumns ==
    { <<H_TxnDate, H_RevUSD>>,
      <<H_A, H_B>>,
      <<H_Month, H_Revenues, H_Expense>>,
      <<H_TxnDate, H_Revenue>>,
      <<H_Date, H_Revenues, H_Revenue>> }

CsvInputs ==
    UNION {{[columns |-> PlainColumns, rows |-> rows],
            [columns |-> PlainColumns, rows |-> Reverse(rows)]} :
              rows \in UNION {RowsUpTo(n, MaxDefects) : n \in 0..MaxRows}}
    \cup {[columns |-> columns, rows |-> rows] :
             columns \in OtherColumns,
             rows \in UNION {RowsUpTo(n, 1) : n \in {MinCleanRows - 1, MinCleanRows}}}

EmptyTable == [columns |-> <<>>, rows |-> <<>>]

IdleClean ==
    /\ c_input = EmptyTable
    /\ c_pc = "idle"
    /\ c_date_col = NoColumn
    /\ c_revenue_col = NoColumn
    /\ c_sorted = NoRows
    /\ c_interp = NoRows
    /\ c_clean = NoRows
    /\ c_result = CsvError("", 0, 0, <<>>)

InitCleanCall ==
    /\ c_input \in CsvInputs
    /\ c_pc = "call"
    /\ c_date_col = NoColumn
    /\ c_revenue_col = NoColumn
    /\ c_sorted = NoRows
    /\ c_interp = NoRows
    /\ c_clean = NoRows
    /\ c_result = CsvError("", 0, 0, <<>>)

\* csv_reader, from line 35 to its return
CsvReader ==
    /\ c_pc = "call"
    /\ \E out \in CsvOutcomes(c_input) :
          /\ c_date_col' = out.date_col
          /\ c_revenue_col' = out.revenue_col
          /\ c_sorted' = out.sorted
          /\ c_interp' = out.interp
          /\ c_clean' = out.clean
          /\ c_result' = out.result
    /\ c_pc' = "done"
    /\ UNCHANGED c_input
    /\ UNCHANGED notClean

-----------------------------------------------------------------------------
(* growth_calculator.  A revenue is an integer number of money units; a growth
   rate is an integer number of hundredths of a percent. *)

\* most records of an input of growth_calculator
MaxMonths == 4

\* n / d rounded to an integer, d # 0: both neighbours when n / d lies half
\* way between them, since the float quotient that round(growth, 2) is given
\* then falls on either side
RoundDiv(n, d) ==
    LET nn == IF d < 0 THEN 0 - n ELSE n
        dd == IF d < 0 THEN 0 - d ELSE d
        q == nn \div dd
        rest == nn - q * dd
    IN  IF 2 * rest < dd THEN {q}
        ELSE IF 2 * rest > dd THEN {q + 1}
        ELSE {q, q + 1}

\* lines 113-114: ((revenues[i] - revenues[i - 1]) / revenues[i - 1]) * 100,
\* rounded to 2 decimals
Growth(prev, cur) == RoundDiv(10000 * (cur - prev), prev)

\* lines 110-115 with a pair of zero previous revenue recorded as 0
RECURSIVE MomGrowthZeroRecorded(_, _)
MomGrowthZeroRecorded(revenues, i) ==
    IF i > Len(revenues) THEN {<<>>}
    ELSE IF revenues[i - 1] # 0
    THEN {<<g>> \o t : g \in Growth(revenues[i - 1], revenues[i]),
                       t \in MomGrowthZeroRecorded(revenues, i + 1)}
    ELSE {<<0>> \o t : t \in MomGrowthZeroRecorded(revenues, i + 1)}

\* lines 110-115: the lists mom_growth can end as, from index i on
RECURSIVE MomGrowth(_, _)
MomGrowth(revenues, i) ==
    IF i > Len(revenues) THEN {<<>>}
    ELSE IF revenues[i - 1] # 0
    THEN {<<g>> \o t : g \in Growth(revenues[i - 1], revenues[i]),
                       t \in MomGrowth(revenues, i + 1)}
    ELSE MomGrowth(revenues, i + 1)

\* lines 120-130 with the comparison made against revenues[-4]
TrendThreeBack(revenues) ==
    LET n == Len(revenues)
        first == IF n >= 4 THEN revenues[n - 3] ELSE revenues[n - 2]
    IN  IF n >= 3
        THEN IF revenues[n] > first THEN "upward"
             ELSE IF revenues[n] < first THEN "downward"
             ELSE "flat"
        ELSE "insufficient data"

\* lines 120-130: recent_3 = revenues[-3:], recent_3[-1] against recent_3[0]
Trend(revenues) ==
    LET n == Len(revenues)
    IN  IF n >= 3
        THEN IF revenues[n] > revenues[n - 2] THEN "upward"
             ELSE IF revenues[n] < revenues[n - 2] THEN "downward"
             ELSE "flat"
        ELSE "insufficient data"

\* np.min and np.max of lines 105-106
MinOf(revenues) ==
    CHOOSE x \in {revenues[i] : i \in 1..Len(revenues)} :
        \A i \in 1..Len(revenues) : x <= revenues[i]
MaxOf(revenues) ==
    CHOOSE x \in {revenues[i] : i \in 1..Len(revenues)} :
        \A i \in 1..Len(revenues) : x >= revenues[i]

NoMetrics ==
    [kind |-> "", total_months |-> 0, min_revenue |-> 0, max_revenue |-> 0,
     mom_growth_rates |-> <<>>, recent_trend |-> ""]

\* lines 136-159: the returned metrics
Metrics(revenues, mom_growth) ==
    [kind |-> "ok", total_months |-> Len(revenues),
     min_revenue |-> MinOf(revenues), max_revenue |-> MaxOf(revenues),
     mom_growth_rates |-> mom_growth, recent_trend |-> Trend(revenues)]

\* lines 91-159: every way the call can end.  An error object is handed back
\* as it came (lines 93-94); an empty list has no "date" column, so line 97
\* raises KeyError.
GrowthOutcomes(data) ==
    IF data.tag = "error"
    THEN {[revenues |-> <<>>, result |-> [NoMetrics EXCEPT !.kind = "error"]]}
    ELSE IF data.rows = <<>>
    THEN {[revenues |-> <<>>, result |-> [NoMetrics EXCEPT !.kind = "raised"]]}
    ELSE UNION {
           LET revenues == [k \in 1..Len(srt) |-> srt[k].revenue.v]
           IN  {[revenues |-> revenues, result |-> Metrics(revenues, mg)] :
                   mg \in MomGrowth(revenues, 2)}
           : srt \in SortValues(data.rows)}

\* ---- inputs

\* the revenues of the records
GrowthRevenues == {0 - 50, 0, 3, 50, 99, 100, 110}

RECURSIVE GrowthRows(_)
GrowthRows(k) ==
    IF k = 0 THEN {<<>>}
    ELSE {Append(s, [date |-> MonthStart(BaseYear * 12 + k - 1), revenue |-> Num(v)]) :
             s \in GrowthRows(k - 1), v \in GrowthRevenues}

\* lists of records in date order and in reverse date order, and the error
\* object csv_reader returns
GrowthInputs ==
    UNION {{[tag |-> "list", rows |-> rows], [tag |-> "list", rows |-> Reverse(rows)]} :
              rows \in UNION {GrowthRows(n) : n \in 0..MaxMonths}}
    \cup {[tag |-> "error", rows |-> <<>>]}

IdleGrowth ==
    /\ m_input = [tag |-> "error", rows |-> <<>>]
    /\ m_pc = "idle"
    /\ m_revenues = <<>>
    /\ m_result = NoMetrics

InitGrowthCall ==
    /\ m_input \in GrowthInputs
    /\ m_pc = "call"
    /\ m_revenues = <<>>
    /\ m_result = NoMetrics

\* growth_calculator, from line 91 to its return
GrowthCalculator ==
    /\ m_pc = "call"
    /\ \E out \in GrowthOutcomes(m_input) :
          /\ m_revenues' = out.revenues
          /\ m_result' = out.result
    /\ m_pc' = "done"
    /\ UNCHANGED m_input
    /\ UNCHANGED notGrowth

-----------------------------------------------------------------------------
(* run_analysis.  A string is empty, or JSON text, given by the value it
   parses to, or prose that holds no JSON. *)

EmptyText == [kind |-> "empty", doc |-> Scalar]
Prose == [kind |-> "prose", doc |-> Scalar]
\* json.dumps
Json(doc) == [kind |-> "json", doc |-> doc]
\* a local variable that has not been assigned
Unbound == [kind |-> "unbound", doc |-> Scalar]

\* a JSON string, given by what it tells
Message(msg) ==
    [tag |-> "scalar", hdr |-> [dcol |-> "", rcol |-> ""], rows |-> <<>>, msg |-> msg]
\* {"error": ...}
ErrorDoc(kind) == Dict(<<Item("error", Message(kind))>>)
\* a JSON array of numbers: records without a date or a revenue key
Numbers(seq) ==
    List([dcol |-> "", rcol |-> ""],
         [i \in 1..Len(seq) |-> [date |-> NaT, revenue |-> Num(seq[i])]])
EmptyList == List([dcol |-> "", rcol |-> ""], <<>>)

IsErrorText(text) ==
    text.kind = "json" /\ text.doc.tag = "dict" /\ HasKey(text.doc, "error")

\* data_tools.py 46-50 and 74-81: the string csv_reader returns.  The dates go
\* out as "%Y-%m-%d" strings, which name the day the model's dates hold.
CsvText(result) ==
    IF result.kind = "ok" THEN Json(List(PlainHeader, result.records))
    ELSE Json(ErrorDoc(result.error))

\* data_tools.py 91-96: what growth_calculator reads from the string, the
\* revenues counted in cents (the files hold whole cents, and a growth rate
\* does not depend on the unit)
GrowthData(text) ==
    IF text.doc.tag = "list"
    THEN [tag |-> "list",
          rows |-> [k \in 1..Len(text.doc.rows) |->
                       [date |-> text.doc.rows[k].date,
                        revenue |-> Num(text.doc.rows[k].revenue.v \div Cent)]]]
    ELSE [tag |-> "error", rows |-> <<>>]

\* data_tools.py 136-147: the metrics object
MetricsDoc(metrics) ==
    Dict(<<Item("total_months", Text(Num(metrics.total_months))),
           Item("recent_trend", Message(metrics.recent_trend)),
           Item("mom_growth_rates", Numbers(metrics.mom_growth_rates))>>)

\* data_tools.py 93-94 and 159: the string growth_calculator returns
GrowthText(csv_text, result) ==
    IF result.kind = "error" THEN csv_text
    ELSE Json(Dict(<<Item("summary_text", Message("summary")),
                     Item("metrics", MetricsDoc(result))>>))

\* sarimax_tool.py 74-196: the ways forecast_revenue ends on a string; a
\* string without JSON is answered at line 90
ForecastCall(text) ==
    UNION {
        IF t.kind # "json" THEN {Error("unparseable", "parse", 0)}
        ELSE UNION {{out.result : out \in ForecastOutcomes(data)} :
                       data \in {Unwrap(t.doc)}}
        : t \in {text}}

\* sarimax_tool.py 191-196 and the error returns: the string forecast_revenue
\* returns
ForecastText(result) ==
    IF result.kind = "ok"
    THEN Json(Dict(<<Item("model_used", Message(result.model_used)),
                     Item("data_points", Text(Num(result.data_points))),
                     Item("forecast", List(PlainHeader, result.forecast))>>))
    ELSE Json(ErrorDoc(result.error))

\* tasks.py 222-239: _extract_json; None is a value that is no list and no
\* object
ExtractJson(text) == IF text.kind = "json" THEN text.doc ELSE Scalar

\* tasks.py 114-121
ToolInput(analyst_output) ==
    LET analyst_data == ExtractJson(analyst_output)
    IN  IF analyst_data.tag = "dict" /\ HasKey(analyst_data, "cleaned_data")
        THEN Json(ValueOf(analyst_data, "cleaned_data"))
        ELSE analyst_output

\* tasks.py 176-184
Historical(analyst_output) ==
    LET data == ExtractJson(analyst_output)
    IN  IF data.tag = "dict" /\ HasKey(data, "cleaned_data")
        THEN ValueOf(data, "cleaned_data")
        ELSE IF data.tag = "list" THEN data
        ELSE EmptyList

\* tasks.py 186-196: forecast and model_used
ForecastPart(forecast_output) ==
    LET data == ExtractJson(forecast_output)
    IN  IF data.tag = "dict"
        THEN [forecast |-> IF HasKey(data, "forecast") THEN ValueOf(data, "forecast")
                           ELSE EmptyList,
              model_used |-> IF HasKey(data, "model_used")
                             THEN ValueOf(data, "model_used").msg ELSE "SARIMAX"]
        ELSE IF data.tag = "list" THEN [forecast |-> data, model_used |-> "SARIMAX"]
        ELSE [forecast |-> EmptyList, model_used |-> "SARIMAX"]

\* tasks.py 198-206
Advice(advice_output) ==
    LET data == ExtractJson(advice_output)
    IN  IF data.tag = "list" THEN data
        ELSE IF data.tag = "dict" /\ HasKey(data, "advice") THEN ValueOf(data, "advice")
        ELSE EmptyList

NoResponse ==
    [status |-> "", model_used |-> "", historical |-> EmptyList, forecast |-> EmptyList,
     strategic_advice |-> EmptyList, agent_logs |-> <<>>]

\* tasks.py 208-219 and 157-167
ParseOutputs(analyst_output, forecast_output, advice_output) ==
    [status |-> "success",
     model_used |-> ForecastPart(forecast_output).model_used,
     historical |-> Historical(analyst_output),
     forecast |-> ForecastPart(forecast_output).forecast,
     strategic_advice |-> Advice(advice_output),
     agent_logs |-> <<analyst_output, forecast_output, advice_output>>]

\* ---- the agents.  _run_crew_safe (tasks.py 27-43) returns what the language
\* model wrote: nothing, prose, or the JSON report of what its tools returned.

\* the analyst's report: cleaned data and metrics, or the error of csv_reader
AnalystReports(file) ==
    UNION {
        IF c.result.kind = "raised" THEN {}
        ELSE IF c.result.kind = "error" THEN {CsvText(c.result)}
        ELSE UNION {
                 {Json(Dict(<<Item("cleaned_data", List(PlainHeader, c.result.records)),
                              Item("metrics", MetricsDoc(g.result))>>)) :
                     g \in {x \in GrowthOutcomes(data) : x.result.kind = "ok"}}
                 : data \in {GrowthData(CsvText(c.result))}}
        : c \in CsvOutcomes(file)}

AnalystAgentOutputs(file) == {EmptyText, Prose} \cup AnalystReports(file)

\* the forecaster's report: what forecast_revenue returned for the data taken
\* from the analyst's output
ForecasterAgentOutputs(analyst_output) ==
    {EmptyText, Prose}
    \cup {ForecastText(result) :
             result \in {x \in ForecastCall(ToolInput(analyst_output)) : x.kind # "raised"}}

StrategistAgentOutputs == {EmptyText, Json(Numbers(<<1, 2, 3>>))}

\* ---- inputs

\* the files: two headers and six rows with at most one defect, or five; the
\* other header sets over six gap-free rows
AnalysisFiles ==
    {[columns |-> PlainColumns, rows |-> rows] :
        rows \in RowsUpTo(MinCleanRows, 1) \cup RowsUpTo(MinCleanRows - 1, 0)}
    \cup {[columns |-> columns, rows |-> rows] :
             columns \in OtherColumns, rows \in RowsUpTo(MinCleanRows, 0)}

IdleAnalysis ==
    /\ r_file = EmptyTable
    /\ r_pc = "idle"
    /\ r_analyst_agent = Unbound
    /\ r_csv_result = Unbound
    /\ r_analyst_output = Unbound
    /\ r_forecaster_agent = Unbound
    /\ r_tool_input = Unbound
    /\ r_forecast_output = Unbound
    /\ r_response = NoResponse

InitAnalysisCall ==
    /\ r_file \in AnalysisFiles
    /\ r_pc = "analyst"
    /\ r_analyst_agent = Unbound
    /\ r_csv_result = Unbound
    /\ r_analyst_output = Unbound
    /\ r_forecaster_agent = Unbound
    /\ r_tool_input = Unbound
    /\ r_forecast_output = Unbound
    /\ r_response = NoResponse

\* tasks.py 56-70: the analyst crew
AnalystAgent ==
    /\ r_pc = "analyst"
    /\ \E out \in AnalystAgentOutputs(r_file) :
          /\ r_analyst_agent' = out
          /\ r_analyst_output' = out
          /\ r_pc' = IF out = EmptyText THEN "analyst_fallback" ELSE "forecaster"
    /\ UNCHANGED <<r_file, r_csv_result, r_forecaster_agent, r_tool_input,
                   r_forecast_output, r_response>>
    /\ UNCHANGED notAnalysis

\* tasks.py 73-83: csv_reader and growth_calculator called directly.  When
\* csv_reader raises, csv_result is still unbound at line 83, whose read
\* raises UnboundLocalError out of the handler and out of run_analysis.
AnalystFallback ==
    /\ r_pc = "analyst_fallback"
    /\ \E c \in CsvOutcomes(r_file) :
          IF c.result.kind = "raised"
          THEN /\ r_pc' = "crashed"
               /\ UNCHANGED <<r_csv_result, r_analyst_output>>
          ELSE \E csv_result \in {CsvText(c.result)} :
                  \E data \in {GrowthData(csv_result)} :
                      \E g \in GrowthOutcomes(data) :
                          /\ r_csv_result' = csv_result
                          /\ r_analyst_output' =
                                IF g.result.kind = "raised" THEN csv_result
                                ELSE GrowthText(csv_result, g.result)
                          /\ r_pc' = "forecaster"
    /\ UNCHANGED <<r_file, r_analyst_agent, r_forecaster_agent, r_tool_input,
                   r_forecast_output, r_response>>
    /\ UNCHANGED notAnalysis

\* tasks.py 90-106: the forecaster crew
ForecasterAgent ==
    /\ r_pc = "forecaster"
    /\ \E out \in ForecasterAgentOutputs(r_analyst_output) :
          /\ r_forecaster_agent' = out
          /\ r_forecast_output' = out
          /\ r_pc' = IF out = EmptyText THEN "forecaster_fallback" ELSE "strategist"
    /\ UNCHANGED <<r_file, r_analyst_agent, r_csv_result, r_analyst_output,
                   r_tool_input, r_response>>
    /\ UNCHANGED notAnalysis

\* tasks.py 109-126: forecast_revenue called directly; an exception leaves
\* forecast_output as it was, empty
ForecasterFallback ==
    /\ r_pc = "forecaster_fallback"
    /\ \E tool_input \in {ToolInput(r_analyst_output)} :
          /\ r_tool_input' = tool_input
          /\ \E result \in ForecastCall(tool_input) :
                r_forecast_output' =
                    IF result.kind = "raised" THEN EmptyText ELSE ForecastText(result)
    /\ r_pc' = "strategist"
    /\ UNCHANGED <<r_file, r_analyst_agent, r_csv_result, r_analyst_output,
                   r_forecaster_agent, r_response>>
    /\ UNCHANGED notAnalysis

\* tasks.py 133-170: the strategist crew and _parse_outputs
Assemble ==
    /\ r_pc = "strategist"
    /\ \E out \in StrategistAgentOutputs :
          r_response' = ParseOutputs(r_analyst_output, r_forecast_output, out)
    /\ r_pc' = "returned"
    /\ UNCHANGED <<r_file, r_analyst_agent, r_csv_result, r_analyst_output,
                   r_forecaster_agent, r_tool_input, r_forecast_output>>
    /\ UNCHANGED notAnalysis

-----------------------------------------------------------------------------
(* Specifications *)

InitGuard == InitGuardWalk /\ IdleForecast /\ IdleClean /\ IdleGrowth /\ IdleAnalysis

NextGuard == GuardStep

SpecGuard == InitGuard /\ [][NextGuard]_vars

InitForecast == InitForecastCall /\ IdleGuard /\ IdleClean /\ IdleGrowth /\ IdleAnalysis

NextForecast == ForecastRevenue

SpecForecast == InitForecast /\ [][NextForecast]_vars

InitClean == InitCleanCall /\ IdleGuard /\ IdleForecast /\ IdleGrowth /\ IdleAnalysis

NextClean == CsvReader

SpecClean == InitClean /\ [][NextClean]_vars

InitGrowth == InitGrowthCall /\ IdleGuard /\ IdleForecast /\ IdleClean /\ IdleAnalysis

NextGrowth == GrowthCalculator

SpecGrowth == InitGrowth /\ [][NextGrowth]_vars

InitAnalysis ==
    InitAnalysisCall /\ IdleGuard /\ IdleForecast /\ IdleClean /\ IdleGrowth

NextAnalysis ==
    \/ AnalystAgent
    \/ AnalystFallback
    \/ ForecasterAgent
    \/ ForecasterFallback
    \/ Assemble

SpecAnalysis == InitAnalysis /\ [][NextAnalysis]_vars

-----------------------------------------------------------------------------
(* Properties of _apply_guardrails, checked under SpecGuard *)

\* the two stages as the specification states them: clamp, then cap
StatedStage(raw, p) ==
    LET c == IF raw < 0 THEN 0 ELSE raw
    IN  IF p > 0 /\ c > 5 * p THEN [capped |-> TRUE, twice |-> 3 * p]
        ELSE [capped |-> FALSE, twice |-> 2 * c]

\* C1: every processed value is first clamped to 0 when negative and then,
\* only if prev > 0 and the clamped value exceeds prev * 5.0, replaced by
\* prev * 1.5, otherwise left unchanged; last actual 100 with raw forecast
\* [700, 50, -5] gives [150.0, 50.0, 0.0]; with prev = 0 no cap is applied.
C1_ClampThenCap ==
    /\ \A k \in 1..Len(g_vals) :
          /\ 2 * g_vals[k] = StatedStage(g_forecast[k], g_prevs[k]).twice
          /\ g_prevs[k] = 0 => g_vals[k] = Clamp(g_forecast[k])
    /\ ( /\ GuardDone
         /\ g_last = Money(100)
         /\ g_forecast = <<Money(700), Money(50), Money(-5)>> )
       => g_guarded = <<Money(150), Money(50), 0>>

C1_Witness ==
    /\ GuardDone
    /\ g_last = Money(100)
    /\ g_forecast = <<Money(700), Money(50), Money(-5)>>
    /\ g_guarded = <<Money(150), Money(50), 0>>
    /\ g_prevs = <<Money(100), Money(150), Money(50)>>

\* C2 as stated: prev is seeded with the last actual value and the prev used
\* at step k+1 is exactly the value emitted in the output for step k (the
\* guarded value rounded to 2 decimals).
C2_PrevIsEmittedValue ==
    /\ Len(g_prevs) >= 1 => g_prevs[1] = g_last
    /\ \A k \in 2..Len(g_prevs) : g_prevs[k] = g_guarded[k - 1]

\* C2 as amended: prev is seeded with the last actual value and the prev used
\* at step k+1 is the guarded (clamped and capped) value of step k before
\* rounding; the value emitted for step k is that value rounded to 2
\* decimals; prev is the raw forecast of step k only when the guardrail left
\* it unchanged.
C2_PrevIsUnroundedGuardedValue ==
    /\ Len(g_prevs) >= 1 => g_prevs[1] = g_last
    /\ \A k \in 2..Len(g_prevs) :
          LET st == StatedStage(g_forecast[k - 1], g_prevs[k - 1])
          IN  /\ 2 * g_prevs[k] = st.twice
              /\ g_guarded[k - 1] % Cent = 0
              /\ 2 * (g_guarded[k - 1] - g_prevs[k]) <= Cent
              /\ 2 * (g_prevs[k] - g_guarded[k - 1]) <= Cent
              /\ (st.capped \/ g_forecast[k - 1] < 0)
                    => g_prevs[k] # g_forecast[k - 1]

C2_Witness ==
    /\ GuardDone
    /\ \E k \in 2..Len(g_prevs) :
          /\ g_prevs[k] # g_guarded[k - 1]
          /\ g_prevs[k] # g_forecast[k - 1]
          /\ g_guarded[k] # Round2(GuardVal(g_forecast[k], g_guarded[k - 1]), TRUE)
          /\ g_guarded[k] # Round2(GuardVal(g_forecast[k], g_guarded[k - 1]), FALSE)

-----------------------------------------------------------------------------
(* Properties of forecast_revenue, checked under SpecForecast *)

ForecastDone == f_pc = "done"

\* the first precondition that fails, in the order the specification lists
\* them (<<"", "">> when none fails)
StatedFirstFailure ==
    LET rows == f_input.rows
        cols == Columns(f_input.hdr)
        hasDate == \E i \in 1..Len(cols) : Normalize(cols[i]) \in DateAliases
        hasRevenue == \E i \in 1..Len(cols) : Normalize(cols[i]) \in RevenueAliases
        kept == {i \in 1..Len(rows) :
                    rows[i].date.kind = "date" /\ rows[i].revenue.ok}
    IN  IF f_input.tag # "list" \/ rows = <<>> THEN <<"malformed", "input">>
        ELSE IF Len(rows) < 3 THEN <<"insufficient", "input">>
        ELSE IF ~(hasDate /\ hasRevenue) THEN <<"columns", "input">>
        ELSE IF \E i \in 1..Len(rows) : rows[i].date.kind = "bad"
        THEN <<"dates", "input">>
        ELSE IF Cardinality(kept) < 3 THEN <<"insufficient", "cleaned">>
        ELSE IF Len(f_series) < 3 THEN <<"insufficient", "resampled">>
        ELSE <<"", "">>

\* C3: forecast_revenue reports the first failing precondition in the order
\* non-empty list, 3 records, resolvable columns, parseable dates, 3 rows
\* after cleaning, 3 points after resampling, and then produces no forecast;
\* 2 records without a date field report insufficient data.
C3_FirstFailureReported ==
    ForecastDone =>
        /\ StatedFirstFailure[1] # "" =>
              /\ f_result.kind = "error"
              /\ f_result.error = StatedFirstFailure[1]
              /\ f_result.stage = StatedFirstFailure[2]
              /\ f_result.forecast = <<>>
        /\ StatedFirstFailure[1] = "" => f_result.kind # "error"
        /\ (f_input.tag = "list" /\ Len(f_input.rows) = 2 /\ f_input.hdr.dcol = "")
              => f_result.error = "insufficient"

C3_Witness ==
    /\ ForecastDone
    /\ f_input.tag = "list"
    /\ Len(f_input.rows) = 2
    /\ f_input.hdr.dcol = ""
    /\ f_result.kind = "error"
    /\ f_result.error = "insufficient"
    /\ f_result.got = 2

NonNullPoints == {k \in 1..Len(f_series) : f_series[k].revenue.ok}

\* C4: the series handed to the model holds no null revenue (months without
\* an observation are dropped), data_points counts the non-null monthly
\* points, and fewer than 3 of them yields the insufficient-data error.
C4_SeriesHasNoNull ==
    (ForecastDone /\ InputError(f_input).error = "") =>
        /\ f_result.kind # "error" => \A k \in 1..Len(f_series) : f_series[k].revenue.ok
        /\ f_result.kind = "ok" => f_result.data_points = Cardinality(NonNullPoints)
        /\ Cardinality(NonNullPoints) < 3 =>
              f_result.kind = "error" /\ f_result.error = "insufficient"

\* C5: the model is chosen by the number of points of the resampled series
\* alone: SES below 12 points, SARIMAX from 12 on (11 gives SES, 12 gives
\* SARIMAX), and model_used and data_points report that choice and count.
C5_ModelByPointCount ==
    (ForecastDone /\ f_result.kind = "ok") =>
        /\ f_result.data_points = Len(f_series)
        /\ f_result.data_points < 12 => f_result.model_used = "SES"
        /\ f_result.data_points >= 12 => f_result.model_used = "SARIMAX"
        /\ Len(f_series) = 11 => f_result.model_used = "SES"
        /\ Len(f_series) = 12 => f_result.model_used = "SARIMAX"

C5_Witness ==
    /\ ForecastDone
    /\ f_result.kind = "ok"
    /\ Len(f_series) = 12
    /\ \A k \in 1..Len(f_series) : f_series[k].revenue.ok
    /\ f_result.model_used = "SARIMAX"
    /\ f_result.data_points = 12

\* the month of the latest date among the input rows that survive cleaning
LastObservedMonth ==
    LET months == {f_input.rows[i].date.y * 12 + f_input.rows[i].date.m - 1 :
                      i \in {j \in 1..Len(f_input.rows) :
                                /\ f_input.rows[j].date.kind = "date"
                                /\ f_input.rows[j].revenue.ok}}
    IN  CHOOSE a \in months : \A b \in months : b <= a

\* C6: a successful result holds exactly 3 forecast points, in order, dated
\* the first day of the 1st, 2nd and 3rd calendar month after the last
\* observed month, each with revenue, conf_lower and conf_upper.
C6_ThreeCalendarMonths ==
    (ForecastDone /\ f_result.kind = "ok") =>
        /\ Len(f_result.forecast) = 3
        /\ \A i \in 1..Len(f_result.forecast) :
              LET p == f_result.forecast[i]
              IN  /\ DOMAIN p = {"date", "revenue", "conf_lower", "conf_upper"}
                  /\ p.date.kind = "date"
                  /\ p.date.m \in 1..12
                  /\ p.date.d = 1
                  /\ p.date.y * 12 + p.date.m - 1 = LastObservedMonth + i

C6_Witness ==
    /\ ForecastDone
    /\ f_result.kind = "ok"
    /\ LastObservedMonth = BaseYear * 12 + 10
    /\ f_result.forecast[1].date = Date(BaseYear, 12, 1)
    /\ f_result.forecast[2].date = Date(BaseYear + 1, 1, 1)
    /\ f_result.forecast[3].date = Date(BaseYear + 1, 2, 1)

-----------------------------------------------------------------------------
(* Properties of csv_reader, checked under SpecClean *)

CleanDone == c_pc = "done"

\* C7: csv_reader returns a cleaned series only if at least 6 rows survive
\* cleaning; with fewer it returns an insufficient-data error carrying the
\* surviving row count and the minimum 6 (5 rows: observed 5, required 6)
\* and no cleaned records.
C7_MinimumSixRows ==
    (CleanDone /\ c_result.kind # "raised" /\ c_result.error # "columns") =>
        /\ c_result.kind = "ok" <=> Len(c_clean) >= 6
        /\ c_result.kind = "ok" => c_result.records = c_clean
        /\ Len(c_clean) < 6 =>
              /\ c_result.kind = "error"
              /\ c_result.error = "insufficient"
              /\ c_result.got = Len(c_clean)
              /\ c_result.required = 6
              /\ c_result.records = <<>>

C7_Witness ==
    /\ CleanDone
    /\ Len(c_input.rows) = 6
    /\ Len(c_clean) = 5
    /\ c_result.kind = "error"
    /\ c_result.error = "insufficient"
    /\ c_result.got = 5
    /\ c_result.required = 6

NumberBefore(k) == \E i \in 1..(k - 1) : c_sorted[i].revenue.ok
NumberAfter(k) == \E j \in (k + 1)..Len(c_sorted) : c_sorted[j].revenue.ok
LastNumberBefore(k) ==
    c_sorted[CHOOSE i \in 1..(k - 1) :
                /\ c_sorted[i].revenue.ok
                /\ \A x \in (i + 1)..(k - 1) : ~c_sorted[x].revenue.ok].revenue
BetweenNumbers(k) ==
    /\ 1 < k
    /\ k < Len(c_sorted)
    /\ c_sorted[k - 1].revenue.ok
    /\ c_sorted[k + 1].revenue.ok
Kept == {k \in 1..Len(c_interp) :
            c_interp[k].date.kind = "date" /\ c_interp[k].revenue.ok}

\* C8 as stated: after sorting, a null revenue between two non-null
\* neighbours becomes their linear interpolation ([10, null, 30] gives 20.0),
\* and a null revenue with no preceding or no following non-null value stays
\* null and its row is dropped.  (Stated for tables without a repeated date,
\* whose sorted order is unique.)
C8_BoundaryNullsStayNull ==
    (CleanDone /\ ~HasDuplicateDates(c_input.rows)) =>
        /\ Len(c_interp) = Len(c_sorted)
        /\ Len(c_clean) = Cardinality(Kept)
        /\ \A k \in 1..Len(c_sorted) :
              ~c_sorted[k].revenue.ok =>
                  /\ BetweenNumbers(k) =>
                        /\ c_interp[k].revenue.ok
                        /\ 2 * c_interp[k].revenue.v
                              = c_sorted[k - 1].revenue.v + c_sorted[k + 1].revenue.v
                  /\ (~NumberBefore(k) \/ ~NumberAfter(k)) => ~c_interp[k].revenue.ok

\* C8 as amended: after sorting, a null revenue between two non-null
\* neighbours becomes their linear interpolation ([10, null, 30] gives 20.0);
\* a null revenue with no preceding non-null value stays null and its row is
\* dropped; a null revenue with a preceding but no following non-null value
\* takes the last preceding non-null value and its row is kept.
C8_OnlyLeadingNullsStayNull ==
    CleanDone =>
        /\ Len(c_interp) = Len(c_sorted)
        /\ Len(c_clean) = Cardinality(Kept)
        /\ \A k \in 1..Len(c_sorted) :
              ~c_sorted[k].revenue.ok =>
                  /\ BetweenNumbers(k) =>
                        /\ c_interp[k].revenue.ok
                        /\ 2 * c_interp[k].revenue.v
                              = c_sorted[k - 1].revenue.v + c_sorted[k + 1].revenue.v
                        /\ ( /\ c_sorted[k - 1].revenue.v = Money(10)
                             /\ c_sorted[k + 1].revenue.v = Money(30) )
                           => c_interp[k].revenue.v = Money(20)
                  /\ ~NumberBefore(k) => ~c_interp[k].revenue.ok /\ k \notin Kept
                  /\ (NumberBefore(k) /\ ~NumberAfter(k)) =>
                        /\ c_interp[k].revenue = LastNumberBefore(k)
                        /\ c_interp[k].date.kind = "date" => k \in Kept

C8_Witness ==
    /\ CleanDone
    /\ c_result.kind = "ok"
    /\ \E k \in 1..Len(c_sorted) :
          /\ ~c_sorted[k].revenue.ok
          /\ BetweenNumbers(k)
          /\ c_sorted[k - 1].revenue.v = Money(10)
          /\ c_interp[k].revenue.v = Money(20)
          /\ c_sorted[k + 1].revenue.v = Money(30)
    /\ \E k \in 1..Len(c_sorted) :
          /\ ~c_sorted[k].revenue.ok
          /\ ~NumberAfter(k)
          /\ c_interp[k].revenue.ok
          /\ k \in Kept

\* C9: a row whose date fails to parse is not an error: it is kept through
\* sorting and interpolation and dropped by the final null filter, so a table
\* with one unparseable date and at least 6 other valid rows yields a
\* cleaned series.
C9_UnparseableDateIsDropped ==
    ( /\ CleanDone
      /\ c_result.error # "columns"
      /\ \E k \in 1..Len(c_input.rows) : c_input.rows[k].date.kind = "bad" ) =>
        /\ c_result.kind # "raised"
        /\ Len(c_sorted) = Len(c_input.rows)
        /\ Cardinality({k \in 1..Len(c_input.rows) : IsValidRow(c_input.rows[k])}) >= 6
              => c_result.kind = "ok"

-----------------------------------------------------------------------------
(* Properties of the column resolution of csv_reader, checked under SpecClean *)

\* the required targets no header was resolved for
UnmetTargets(columns) ==
    (IF ResolveDate(columns) = NoColumn THEN {"date"} ELSE {})
    \cup (IF ResolveRevenue(columns) = NoColumn THEN {"revenue"} ELSE {})

\* cleaning was entered: the call went past the column check
Proceeded == c_result.error # "columns"

\* C11 as stated: csv_reader proceeds to cleaning only when both a date and a
\* revenue header were resolved; otherwise it returns a column error that
\* carries every discovered header, names exactly the unmet target(s) and
\* holds no cleaned data; an unresolved expenses header is never an error.
C11_ErrorNamesUnmetTargets ==
    CleanDone =>
        /\ Proceeded <=> UnmetTargets(c_input.columns) = {}
        /\ ~Proceeded =>
              /\ c_result.kind = "error"
              /\ c_result.found = c_input.columns
              /\ c_result.need = UnmetTargets(c_input.columns)
              /\ c_result.records = <<>> /\ c_clean = NoRows
        /\ (UnmetTargets(c_input.columns) = {}
            /\ ResolveExpenses(c_input.columns) = NoColumn
            /\ ~DateRaises(c_input, ResolveDate(c_input.columns))
            /\ Len(c_clean) >= MinCleanRows) => c_result.kind = "ok"

\* C11 amended: the same, except that the column error names both required
\* targets, date and revenue, whichever of them is unmet.
C11_ErrorNamesBothTargets ==
    CleanDone =>
        /\ Proceeded <=> UnmetTargets(c_input.columns) = {}
        /\ ~Proceeded =>
              /\ c_result.kind = "error"
              /\ c_result.found = c_input.columns
              /\ c_result.need = {"date", "revenue"}
              /\ UnmetTargets(c_input.columns) \subseteq c_result.need
              /\ c_result.records = <<>> /\ c_clean = NoRows
        /\ (UnmetTargets(c_input.columns) = {}
            /\ ResolveExpenses(c_input.columns) = NoColumn
            /\ ~DateRaises(c_input, ResolveDate(c_input.columns))
            /\ Len(c_clean) >= MinCleanRows) => c_result.kind = "ok"

\* a call that ended in the column error with the date header resolved and the
\* revenue header not
C11_Witness ==
    /\ CleanDone
    /\ c_result.error = "columns"
    /\ UnmetTargets(c_input.columns) = {"revenue"}
    /\ c_result.found = c_input.columns
    /\ Len(c_input.rows) >= MinCleanRows


\* the similarity of a header to a target, as line 17 computes it
Score(col, target) == Ratio(Strip(Lower(col)), Lower(target))

\* col is what the stated rule accepts for target among columns: the header
\* of the highest score, the first of them among equals, when that score is
\* at least 0.6, and no header otherwise
AcceptedFor(col, columns, target) ==
    IF col = NoColumn
    THEN \A k \in 1..Len(columns) :
            5 * Score(columns[k], target).num < 3 * Score(columns[k], target).den
    ELSE \E k \in 1..Len(columns) :
            /\ columns[k] = col
            /\ 5 * Score(col, target).num >= 3 * Score(col, target).den
            /\ \A j \in 1..Len(columns) : ~FracLess(Score(col, target), Score(columns[j], target))
            /\ \A j \in 1..(k - 1) : FracLess(Score(columns[j], target), Score(col, target))

\* the rule for the two required targets; the date header is looked up under
\* "date" and then under the alternates of line 41, in their order
RuleFollowed ==
    /\ AcceptedFor(c_revenue_col, c_input.columns, T_revenue)
    /\ \/ /\ c_date_col # NoColumn
          /\ AcceptedFor(c_date_col, c_input.columns, T_date)
       \/ /\ AcceptedFor(NoColumn, c_input.columns, T_date)
          /\ \/ \E a \in 1..Len(DateAlternates) :
                   /\ c_date_col # NoColumn
                   /\ AcceptedFor(c_date_col, c_input.columns, DateAlternates[a])
                   /\ \A b \in 1..(a - 1) :
                         AcceptedFor(NoColumn, c_input.columns, DateAlternates[b])
             \/ /\ c_date_col = NoColumn
                /\ \A a \in 1..Len(DateAlternates) :
                      AcceptedFor(NoColumn, c_input.columns, DateAlternates[a])

\* C12 as stated: the resolver accepts the header of the highest similarity
\* when that similarity is at least 0.6; ["Txn Date", "Rev (USD)"] resolves
\* to date = "Txn Date" and revenue = "Rev (USD)"; ["A", "B"] fails with the
\* column error.
C12_RevUsdResolves ==
    CleanDone =>
        /\ RuleFollowed
        /\ c_input.columns = <<H_TxnDate, H_RevUSD>> =>
              /\ c_date_col = H_TxnDate
              /\ c_revenue_col = H_RevUSD
              /\ c_result.error # "columns"
        /\ c_input.columns = <<H_A, H_B>> => c_result.error = "columns"

\* C12 amended: the rule as stated; under it ["Txn Date", "Rev (USD)"]
\* resolves date to "Txn Date" (similarity 8/12) and leaves revenue unresolved
\* ("Rev (USD)" scores 8/16 against "revenue"), so the call ends in the column
\* error, as it does for ["A", "B"].
C12_RevUsdBelowThreshold ==
    CleanDone =>
        /\ RuleFollowed
        /\ c_input.columns = <<H_TxnDate, H_RevUSD>> =>
              /\ c_date_col = H_TxnDate
              /\ Score(H_TxnDate, T_date) = [num |-> 8, den |-> 12]
              /\ c_revenue_col = NoColumn
              /\ Score(H_RevUSD, T_revenue) = [num |-> 8, den |-> 16]
              /\ c_result.error = "columns"
        /\ c_input.columns = <<H_A, H_B>> =>
              /\ c_date_col = NoColumn /\ c_revenue_col = NoColumn
              /\ c_result.error = "columns"

\* a finished call that took the later header "Revenue" over the earlier
\* "revenues", which also meets the threshold
C12_HighestWins ==
    /\ CleanDone
    /\ c_input.columns = <<H_Date, H_Revenues, H_Revenue>>
    /\ c_revenue_col = H_Revenue
    /\ MeetsThreshold(Score(H_Revenues, T_revenue))

\* a finished call on the headers ["Txn Date", "Rev (USD)"] with enough rows
C12_Witness ==
    /\ CleanDone
    /\ c_input.columns = <<H_TxnDate, H_RevUSD>>
    /\ c_date_col = H_TxnDate
    /\ Len(c_input.rows) >= MinCleanRows
    /\ \A k \in 1..Len(c_input.rows) :
          c_input.rows[k].date.kind = "date" /\ c_input.rows[k].revenue.ok


-----------------------------------------------------------------------------
(* Properties of growth_calculator, checked under SpecGrowth *)

GrowthDone == m_pc = "done" /\ m_result.kind = "ok"

\* the adjacent pairs (by the index of their second member) whose previous
\* revenue is not zero, in date order
RECURSIVE CountedPairs(_, _)
CountedPairs(revenues, i) ==
    IF i > Len(revenues) THEN <<>>
    ELSE (IF revenues[i - 1] # 0 THEN <<i>> ELSE <<>>) \o CountedPairs(revenues, i + 1)

\* g hundredths of a percent is (cur - prev) / prev * 100 rounded to two
\* decimals: no hundredth lies nearer to the exact rate
IsRoundedGrowth(g, prev, cur) ==
    LET a == IF prev < 0 THEN 0 - prev ELSE prev
        diff == g * prev - 10000 * (cur - prev)
    IN  2 * (IF diff < 0 THEN 0 - diff ELSE diff) <= a

\* the dates of the input ascend along the revenues read at line 100
InDateOrder ==
    \E srt \in SortValues(m_input.rows) :
        /\ m_revenues = [k \in 1..Len(srt) |-> srt[k].revenue.v]
        /\ \A k \in 1..(Len(srt) - 1) : ~DateLess(srt[k + 1].date, srt[k].date)

\* C13: the MoM growth list holds, in date order, exactly one entry for each
\* adjacent pair whose previous revenue is non-zero, equal to
\* (rev[i] - rev[i-1]) / rev[i-1] * 100 rounded to 2 decimals, and no entry
\* for a pair whose previous revenue is zero; [100, 110, 99] gives
\* [10.0, -10.0], and a series starting [0, 50, ...] has no entry for its
\* first pair.
C13_MomGrowthSkipsZeroPrevious ==
    GrowthDone =>
        LET pairs == CountedPairs(m_revenues, 2)
            growth == m_result.mom_growth_rates
        IN  /\ InDateOrder
            /\ Len(growth) = Len(pairs)
            /\ \A k \in 1..Len(pairs) :
                  IsRoundedGrowth(growth[k], m_revenues[pairs[k] - 1], m_revenues[pairs[k]])
            /\ m_revenues = <<100, 110, 99>> => growth = <<1000, 0 - 1000>>
            /\ (Len(m_revenues) >= 2 /\ m_revenues[1] = 0 /\ m_revenues[2] = 50) =>
                  /\ Len(growth) <= Len(m_revenues) - 2
                  /\ Len(m_revenues) >= 3 =>
                        IsRoundedGrowth(growth[1], m_revenues[2], m_revenues[3])

\* the list [0, 50, 3, 100] handed over in reverse date order: the first pair
\* is skipped and the two entries left are 3 against 50 and 100 against 3
C13_Witness ==
    /\ GrowthDone
    /\ m_revenues = <<0, 50, 3, 100>>
    /\ m_input.rows[1].revenue.v = 100
    /\ m_result.mom_growth_rates = <<0 - 9400, 323333>>

\* C14 as stated: with at least 3 observations the trend compares the last
\* observation to the observation 3 positions back (upward if strictly
\* greater, downward if strictly less, flat if equal); with fewer than 3 the
\* label is "insufficient data"; the label is always one of these four.
C14_TrendThreePositionsBack ==
    GrowthDone =>
        LET n == Len(m_revenues)
            trend == m_result.recent_trend
        IN  /\ trend \in {"upward", "downward", "flat", "insufficient data"}
            /\ n < 3 <=> trend = "insufficient data"
            /\ n >= 4 =>
                  /\ trend = "upward" <=> m_revenues[n] > m_revenues[n - 3]
                  /\ trend = "downward" <=> m_revenues[n] < m_revenues[n - 3]
                  /\ trend = "flat" <=> m_revenues[n] = m_revenues[n - 3]

\* C14 amended: with at least 3 observations the trend compares the last
\* observation to the observation 2 positions back, the first of the last
\* three; the rest as stated.
C14_TrendTwoPositionsBack ==
    GrowthDone =>
        LET n == Len(m_revenues)
            trend == m_result.recent_trend
        IN  /\ trend \in {"upward", "downward", "flat", "insufficient data"}
            /\ n < 3 <=> trend = "insufficient data"
            /\ n >= 3 =>
                  /\ trend = "upward" <=> m_revenues[n] > m_revenues[n - 2]
                  /\ trend = "downward" <=> m_revenues[n] < m_revenues[n - 2]
                  /\ trend = "flat" <=> m_revenues[n] = m_revenues[n - 2]

\* four observations whose last lies above the one 2 positions back and
\* below the one 3 positions back
C14_Witness ==
    /\ GrowthDone
    /\ Len(m_revenues) = 4
    /\ m_revenues[4] > m_revenues[2]
    /\ m_revenues[4] < m_revenues[1]
    /\ m_result.recent_trend = "upward"


-----------------------------------------------------------------------------
(* Properties of the input unwrapping of forecast_revenue, checked under
   SpecForecast *)

\* the values of an object that satisfy Want, in key order
ListsAmong(doc, Want(_)) ==
    SelectSeq([i \in 1..Len(doc.items) |-> doc.items[i].val], Want)

IsList(val) == val.tag = "list"

\* the unwrapping of an object by the stated priority; Want tells which
\* values the last rule takes for a list
StatedUnwrap(doc, Want(_)) ==
    IF \E i \in 1..Len(doc.items) : doc.items[i].key = "cleaned_data"
    THEN {doc.items[i].val : i \in {j \in 1..Len(doc.items) : doc.items[j].key = "cleaned_data"}}
    ELSE IF \E i \in 1..Len(doc.items) : doc.items[i].key = "data"
    THEN {doc.items[i].val : i \in {j \in 1..Len(doc.items) : doc.items[j].key = "data"}}
    ELSE IF /\ \E i \in 1..Len(doc.items) : doc.items[i].key = "date"
            /\ \E i \in 1..Len(doc.items) : doc.items[i].key = "revenue"
    THEN {v \in {f_input} : v.tag = "list" /\ Len(v.rows) = 1}
    ELSE IF ListsAmong(doc, Want) # <<>> THEN {ListsAmong(doc, Want)[1]}
    ELSE {doc}

MalformedReported ==
    (f_input.tag # "list" \/ f_input.rows = <<>>) =>
        /\ f_result.kind = "error"
        /\ f_result.error = "malformed"
        /\ f_result.forecast = <<>>

\* C15 as stated: an object is unwrapped by the priority "cleaned_data", then
\* "data", then a single object with date and revenue as a one-element list,
\* then the first list among the values; a result that is no list or is empty
\* is reported as malformed input, without forecast.  (Two results that are
\* both reported as malformed count as the same result.)
C15_FirstListTaken ==
    (ForecastDone /\ f_doc.tag = "dict") =>
        /\ \E v \in StatedUnwrap(f_doc, IsList) :
              f_input = v \/ (~IsNonEmptyList(v) /\ ~IsNonEmptyList(f_input))
        /\ MalformedReported

\* C15 amended: the same, with the last rule taking the first non-empty list
\* among the values.
C15_FirstNonEmptyListTaken ==
    (ForecastDone /\ f_doc.tag = "dict") =>
        /\ f_input \in StatedUnwrap(f_doc, IsNonEmptyList)
        /\ MalformedReported

\* an object whose first value is an empty list and whose second value is a
\* list of records, which the call went on to forecast from
C15_Witness ==
    /\ ForecastDone
    /\ f_doc.tag = "dict"
    /\ Len(f_doc.items) = 2
    /\ f_doc.items[1].key = "records"
    /\ f_doc.items[1].val = List(PlainHeader, <<>>)
    /\ f_input = f_doc.items[2].val
    /\ f_result.kind = "ok"


-----------------------------------------------------------------------------
(* Properties of the guardrailed forecast points, checked under SpecForecast *)

\* C18: in every forecast point forecast_revenue returns, the interval
\* brackets the point forecast after guardrailing,
\* conf_lower <= revenue <= conf_upper, for every raw model output with
\* lower <= mean <= upper and every last actual value (of a series without
\* null).
C18_IntervalBracketsForecast ==
    (/\ ForecastDone
     /\ f_result.kind = "ok"
     /\ \A k \in 1..Len(f_series) : f_series[k].revenue.ok) =>
        \A i \in 1..Len(f_result.forecast) :
            /\ f_result.forecast[i].conf_lower <= f_result.forecast[i].revenue
            /\ f_result.forecast[i].revenue <= f_result.forecast[i].conf_upper


-----------------------------------------------------------------------------
(* Properties of run_analysis, checked under SpecAnalysis *)

\* a core stage failed: the output kept for the analyst is the error object
\* of csv_reader (unresolved columns, fewer than 6 rows), or the output kept
\* for the forecaster is an error object of forecast_revenue
StageFailed == IsErrorText(r_analyst_output) \/ IsErrorText(r_forecast_output)

\* C16: whenever a core stage fails during run_analysis, the returned object
\* describes the failure: it is never a response of status "success" with
\* empty historical and forecast data, and run_analysis never ends in an
\* unhandled exception.
C16_FailureIsDescribed ==
    /\ r_pc # "crashed"
    /\ (r_pc = "returned" /\ StageFailed) =>
          ~(/\ r_response.status = "success"
            /\ r_response.historical.rows = <<>>
            /\ r_response.forecast.rows = <<>>)

\* C17: when the analyst agent gives no output, the direct calls of csv_reader
\* and growth_calculator succeed on a valid file, and the forecaster agent
\* gives no output either, then forecast_revenue is called directly with the
\* cleaned series csv_reader produced, and the response holds the cleaned
\* historical records and (unless the model fit raised) a 3-point forecast.
C17_FallbackForecastsCleanedSeries ==
    (/\ r_pc = "returned"
     /\ r_analyst_agent = EmptyText
     /\ r_csv_result.kind = "json"
     /\ r_csv_result.doc.tag = "list"
     /\ r_forecaster_agent = EmptyText) =>
        /\ r_tool_input = r_csv_result
        /\ r_response.historical.rows = r_csv_result.doc.rows
        /\ r_forecast_output = EmptyText \/ Len(r_response.forecast.rows) = Horizon

=============================================================================
